---- MODULE Spec2Model ----
(***************************************************************************)
(* A model of hound's start-up path: the configuration loader              *)
(* (config/config.go), the houndd main program (makeSearchers,             *)
(* handleShutdown, registerShutdownSignal, makeTemplateData, main) and     *)
(* the BSD/darwin memory mapping helpers of the index package              *)
(* (mmapFile, unmmapFile).                                                 *)
(***************************************************************************)
EXTENDS Integers, Sequences, FiniteSets, TLC

VARIABLES
    input,      \* the configuration file handed to LoadFromFile
    cfg,        \* the Config value (c *Config)
    lpc,        \* outcome of LoadFromFile: "new", "ok", "error", "panic"
    ui,         \* the last JSON text produced for the UI: [by, text]
    pc,         \* main: the statement the main goroutine is at
    proc,       \* the process: "running", "exit0", "panic", "killed"
    cause,      \* what ended the process
    registered, \* signal.Notify(shutdownCh, SIGTERM) has been called
    shutdownCh, \* number of signals held in shutdownCh (capacity 1)
    sent,       \* number of SIGTERMs delivered to the process so far
    reposBefore,\* cfg.Repos as it was when makeSearchers was entered
    errs,       \* the per-repo errors searcher.MakeAll reported (names)
    ret,        \* what makeSearchers returned: [done, ok, err]
    searchers,  \* the searchers (names) main holds
    gpc,        \* handleShutdown's goroutine: where it is
    stopped,    \* searchers Stop has been called on
    waitCalled, \* searchers Wait has been called on
    waited,     \* searchers Wait has returned for
    kpc,        \* index: where the reader of one index file is
    fl,         \* the file f: [size, open]
    md,         \* the mmapData: [d, o], each a slice [base, len, cap]
    active,     \* the mappings of the process: base -> length
    munmaps,    \* number of munmap system calls that released a mapping
    kerr        \* what unmmapFile returned: "none", "nil", "EINVAL", ...

cvars == <<input, cfg, lpc, ui>>
mvars == <<pc, proc, cause, registered, shutdownCh, sent, reposBefore, errs,
           ret, searchers, gpc, stopped, waitCalled, waited>>
kvars == <<kpc, fl, md, active, munmaps, kerr>>
vars == <<cvars, mvars, kvars>>

(***************************************************************************)
(* config.go: constants                                                    *)
(***************************************************************************)
defaultMsBetweenPoll == 30000
defaultMaxConcurrentIndexers == 2
defaultPushEnabled == FALSE
defaultPollEnabled == TRUE
defaultTitle == "Hound"
defaultVcs == "git"
defaultBaseUrl == "{url}/blob/{rev}/{path}{anchor}"
defaultAnchor == "#L{line}"
defaultHealthCheckURI == "/healthz"
defaultResultLimit == 5000

(***************************************************************************)
(* JSON texts.  A SecretMessage holds the raw bytes of a JSON value; the   *)
(* bytes of an object are the sequence of its members as written (any      *)
(* order, a key possibly twice), "array" stands for a value that is valid  *)
(* JSON but no object, "empty" for a zero-length byte slice.               *)
(***************************************************************************)
Keys == {"k1", "k2"}
KeyOrder == <<"k1", "k2">>          \* the keys in ascending (byte) order
EmptyMap == [k \in {} |-> 0]
NoBytes == [kind |-> "empty", members |-> <<>>]
ArrayText == [kind |-> "array", members |-> <<>>]
ObjectText(ms) == [kind |-> "object", members |-> ms]
NullText == [kind |-> "null", members |-> <<>>]

\* a pointer to a SecretMessage: nil, or the bytes it holds
NilMessage == [nil |-> TRUE, bytes |-> NoBytes]
Message(t) == [nil |-> FALSE, bytes |-> t]

\* *bool
NilBool == [nil |-> TRUE, val |-> FALSE]
BoolPtr(b) == [nil |-> FALSE, val |-> b]

\* *UrlPattern
NilUrlPattern == [nil |-> TRUE, BaseUrl |-> "", Anchor |-> ""]
UrlPattern(b, a) == [nil |-> FALSE, BaseUrl |-> b, Anchor |-> a]

\* func optionToBool(val *bool, def bool) bool
optionToBool(val, def) == IF val.nil THEN def ELSE val.val

\* func (r *Repo) PollUpdatesEnabled() bool
PollUpdatesEnabled(r) == optionToBool(r.EnablePollUpdates, defaultPollEnabled)

\* func (r *Repo) PushUpdatesEnabled() bool
PushUpdatesEnabled(r) == optionToBool(r.EnablePushUpdates, defaultPushEnabled)

\* func (s *SecretMessage) MarshalJSON: always the empty object
MarshalJSON_Leaky(s) == s
MarshalJSON(s) == ObjectText(<<>>)

\* encoding/json on a *SecretMessage field: null for a nil pointer, else
\* the value's MarshalJSON
MarshalMessage(p) == IF p.nil THEN NullText ELSE MarshalJSON(p.bytes)

\* func (r *Repo) VcsConfig() []byte
VcsConfig(r) == IF r.VcsConfigMessage.nil THEN NoBytes ELSE r.VcsConfigMessage.bytes

\* json.Unmarshal of an object's members into a map: a later member
\* replaces an earlier one of the same key
RECURSIVE MembersToMap(_)
MembersToMap(ms) ==
    IF ms = <<>> THEN EmptyMap
    ELSE LET rest == MembersToMap(SubSeq(ms, 1, Len(ms) - 1))
             last == ms[Len(ms)]
         IN [k \in DOMAIN rest \cup {last.k} |->
                IF k = last.k THEN last.v ELSE rest[k]]

\* json.Unmarshal(bytes, &map[string]interface{}): an error unless the text
\* is an object
Unmarshal(t) ==
    IF t.kind = "object" THEN [err |-> FALSE, vals |-> MembersToMap(t.members)]
    ELSE [err |-> TRUE, vals |-> EmptyMap]

\* json.Marshal(&map): the members in ascending key order
RECURSIVE MarshalFrom(_, _)
MarshalFrom(m, i) ==
    IF i > Len(KeyOrder) THEN <<>>
    ELSE (IF KeyOrder[i] \in DOMAIN m
             THEN <<[k |-> KeyOrder[i], v |-> m[KeyOrder[i]]]>> ELSE <<>>)
         \o MarshalFrom(m, i + 1)

Marshal(m) == ObjectText(MarshalFrom(m, 1))

(***************************************************************************)
(* config.go: initRepo                                                     *)
(***************************************************************************)
initRepo_NoAnchor(r) ==
    [r EXCEPT
       !.MsBetweenPolls = IF @ = 0 THEN defaultMsBetweenPoll ELSE @,
       !.Vcs = IF @ = "" THEN defaultVcs ELSE @,
       !.UrlPattern = IF @.nil THEN UrlPattern(defaultBaseUrl, defaultAnchor)
                      ELSE UrlPattern(IF @.BaseUrl = "" THEN defaultBaseUrl ELSE @.BaseUrl,
                                      @.Anchor)]

initRepo_UrlAsDisplayName(r) ==
    [r EXCEPT
       !.DisplayName = IF @ = "" THEN r.Url ELSE @,
       !.MsBetweenPolls = IF @ = 0 THEN defaultMsBetweenPoll ELSE @,
       !.Vcs = IF @ = "" THEN defaultVcs ELSE @,
       !.UrlPattern = IF @.nil THEN UrlPattern(defaultBaseUrl, defaultAnchor)
                      ELSE UrlPattern(IF @.BaseUrl = "" THEN defaultBaseUrl ELSE @.BaseUrl,
                                      IF @.Anchor = "" THEN defaultAnchor ELSE @.Anchor)]

initRepo(r) ==
    [r EXCEPT
       !.MsBetweenPolls = IF @ = 0 THEN defaultMsBetweenPoll ELSE @,
       !.Vcs = IF @ = "" THEN defaultVcs ELSE @,
       !.UrlPattern = IF @.nil THEN UrlPattern(defaultBaseUrl, defaultAnchor)
                      ELSE UrlPattern(IF @.BaseUrl = "" THEN defaultBaseUrl ELSE @.BaseUrl,
                                      IF @.Anchor = "" THEN defaultAnchor ELSE @.Anchor)]

(***************************************************************************)
(* config.go: mergeVCSConfigs                                              *)
(***************************************************************************)
RECURSIVE Perms(_)
Perms(S) ==
    IF S = {} THEN {<<>>}
    ELSE UNION {{<<x>> \o p : p \in Perms(S \ {x})} : x \in S}

\* lines 179-183: a global value is added only under a name the repo's own
\* values do not have
mergeVals_GlobalWins(repoVals, globalVals) ==
    [k \in DOMAIN repoVals \cup DOMAIN globalVals |->
        IF k \in DOMAIN globalVals THEN globalVals[k] ELSE repoVals[k]]

mergeVals(repoVals, globalVals) ==
    [k \in DOMAIN repoVals \cup DOMAIN globalVals |->
        IF k \in DOMAIN repoVals THEN repoVals[k] ELSE globalVals[k]]

\* the body of the loop over cfg.Repos for one repo: [err, repo]
mergeRepo(repo, globalConfigVals) ==
    IF repo.Vcs \notin DOMAIN globalConfigVals
    THEN [err |-> FALSE, repo |-> repo]
    ELSE LET repoBytes == VcsConfig(repo)
             own == IF repoBytes.kind = "empty"
                    THEN [err |-> FALSE, vals |-> EmptyMap]
                    ELSE Unmarshal(repoBytes)
         IN IF own.err THEN [err |-> TRUE, repo |-> repo]
            ELSE [err |-> FALSE,
                  repo |-> [repo EXCEPT !.VcsConfigMessage =
                      Message(Marshal(mergeVals(own.vals, globalConfigVals[repo.Vcs])))]]

\* the loop over cfg.Repos in the order the map iteration happens to take;
\* the first error ends it
RECURSIVE mergeLoop(_, _, _)
mergeLoop(repos, globalConfigVals, order) ==
    IF order = <<>> THEN [err |-> FALSE, repos |-> repos]
    ELSE LET m == mergeRepo(repos[Head(order)], globalConfigVals)
         IN IF m.err THEN [err |-> TRUE, repos |-> repos]
            ELSE mergeLoop([repos EXCEPT ![Head(order)] = m.repo],
                           globalConfigVals, Tail(order))

\* func mergeVCSConfigs(cfg *Config) error: the set of possible results
\* [status, cfg].  A nil *SecretMessage in the global map is dereferenced
\* (a panic); which faulty global entry is met first depends on the map
\* iteration order.
mergeVCSConfigs(c) ==
    LET G == DOMAIN c.VCSConfigMessages
        nils == {g \in G : c.VCSConfigMessages[g].nil}
        bads == {g \in G \ nils : Unmarshal(c.VCSConfigMessages[g].bytes).err}
        globalConfigVals == [g \in G |-> Unmarshal(c.VCSConfigMessages[g].bytes).vals]
    IN IF G = {} THEN {[status |-> "ok", cfg |-> c]}
       ELSE IF nils \cup bads # {}
       THEN {[status |-> "panic", cfg |-> c] : g \in nils}
            \cup {[status |-> "error", cfg |-> c] : g \in bads}
       ELSE {LET l == mergeLoop(c.Repos, globalConfigVals, order)
             IN [status |-> IF l.err THEN "error" ELSE "ok",
                 cfg |-> [c EXCEPT !.Repos = l.repos]]
             : order \in Perms(DOMAIN c.Repos)}

(***************************************************************************)
(* config.go: initConfig                                                   *)
(***************************************************************************)
initConfig_NoResultLimit(c) ==
    mergeVCSConfigs(
        [c EXCEPT
           !.MaxConcurrentIndexers = IF @ = 0 THEN defaultMaxConcurrentIndexers ELSE @,
           !.HealthCheckURI = IF @ = "" THEN defaultHealthCheckURI ELSE @])

initConfig(c) ==
    mergeVCSConfigs(
        [c EXCEPT
           !.MaxConcurrentIndexers = IF @ = 0 THEN defaultMaxConcurrentIndexers ELSE @,
           !.HealthCheckURI = IF @ = "" THEN defaultHealthCheckURI ELSE @,
           !.ResultLimit = IF @ = 0 THEN defaultResultLimit ELSE @])

(***************************************************************************)
(* config.go: Config.LoadFromFile                                          *)
(***************************************************************************)
\* a path: absolute or relative, and its segments
Path(abs, segs) == [abs |-> abs, segs |-> segs]
Cwd == Path(TRUE, <<"srv">>)

\* filepath.Join(filepath.Dir(filename), c.DbPath)
Join(dir, p) == Path(dir.abs, dir.segs \o p.segs)

\* filepath.Abs: the path itself when absolute, else joined to the working
\* directory, which is an error when that cannot be determined
Abs(p) ==
    IF p.abs THEN {[err |-> FALSE, path |-> p]}
    ELSE {[err |-> FALSE, path |-> Join(Cwd, p)], [err |-> TRUE, path |-> p]}

ZeroConfig ==
    [DbPath |-> Path(FALSE, <<>>), Title |-> "", Repos |-> EmptyMap,
     MaxConcurrentIndexers |-> 0, HealthCheckURI |-> "",
     VCSConfigMessages |-> EmptyMap, ResultLimit |-> 0]

\* The possible results [status, cfg] of c.LoadFromFile(filename) on a
\* zero Config, for a file in = [file, dir, cfg]: file says whether it can
\* be opened and decoded, dir is filepath.Dir(filename), cfg is what the
\* JSON decoder stores.
LoadFromFile(in) ==
    IF in.file # "ok" THEN {[status |-> "error", cfg |-> ZeroConfig]}
    ELSE LET c1 == [in.cfg EXCEPT !.Title = IF @ = "" THEN defaultTitle ELSE @]
             paths == IF c1.DbPath.abs THEN {[err |-> FALSE, path |-> c1.DbPath]}
                      ELSE Abs(Join(in.dir, c1.DbPath))
         IN UNION {
              IF a.err THEN {[status |-> "error", cfg |-> c1]}
              ELSE initConfig(
                     [c1 EXCEPT !.DbPath = a.path,
                                !.Repos = [n \in DOMAIN @ |-> initRepo(@[n])]])
              : a \in paths}

(***************************************************************************)
(* config.go: Config.ToJsonString; main: makeTemplateData                  *)
(***************************************************************************)
NameOrder == <<"a", "b", "c">>      \* the repo names in ascending order

BoolJSON(p) == IF p.nil THEN "null" ELSE IF p.val THEN "true" ELSE "false"

\* json.Marshal of a *Repo: the fields in declaration order
MarshalRepo(r) ==
    << <<"url", r.Url>>,
       <<"display-name", r.DisplayName>>,
       <<"ms-between-poll", r.MsBetweenPolls>>,
       <<"vcs", r.Vcs>>,
       <<"vcs-config", MarshalMessage(r.VcsConfigMessage)>>,
       <<"url-pattern", r.UrlPattern>>,
       <<"exclude-dot-files", r.ExcludeDotFiles>>,
       <<"enable-poll-updates", BoolJSON(r.EnablePollUpdates)>>,
       <<"enable-push-updates", BoolJSON(r.EnablePushUpdates)>>,
       <<"auto-generated-files", r.AutoGeneratedFiles>> >>

\* json.Marshal of a map[string]*Repo: the entries in ascending key order
RECURSIVE MarshalReposFrom(_, _)
MarshalReposFrom(repos, i) ==
    IF i > Len(NameOrder) THEN <<>>
    ELSE (IF NameOrder[i] \in DOMAIN repos
             THEN << <<NameOrder[i], MarshalRepo(repos[NameOrder[i]])>> >> ELSE <<>>)
         \o MarshalReposFrom(repos, i + 1)

MarshalRepos(repos) == MarshalReposFrom(repos, 1)

\* func (c *Config) ToJsonString() (string, error)
ToJsonString(c) == MarshalRepos(c.Repos)

\* func makeTemplateData(cfg *config.Config): data.ReposAsJson
makeTemplateData(c) ==
    LET res == [name \in DOMAIN c.Repos |-> c.Repos[name]]
    IN MarshalRepos(res)

(***************************************************************************)
(* The configuration files the loader is run on                            *)
(***************************************************************************)
MkRepo(dn, ms, vcs, msg, up, poll, push) ==
    [Url |-> "https://h/r.git", DisplayName |-> dn, MsBetweenPolls |-> ms,
     Vcs |-> vcs, VcsConfigMessage |-> msg, UrlPattern |-> up,
     ExcludeDotFiles |-> FALSE, EnablePollUpdates |-> poll,
     EnablePushUpdates |-> push, AutoGeneratedFiles |-> <<>>]

BoolPtrs == {NilBool, BoolPtr(TRUE), BoolPtr(FALSE)}
UrlPatterns == {NilUrlPattern} \cup {UrlPattern(b, a) : b \in {"", "{url}/src"}, a \in {"", "#{line}"}}

\* repos that differ in which of the defaulted fields they give
RepoChoices ==
    {MkRepo(dn, ms, vcs, NilMessage, up, poll, push) :
        dn \in {"", "Main"}, ms \in {0, 500}, vcs \in {"", "hg"},
        up \in UrlPatterns, poll \in BoolPtrs, push \in BoolPtrs}

\* repos for the files of two repos: fewer combinations of the same fields
PairChoices ==
    {MkRepo(dn, ms, vcs, NilMessage, up, poll, NilBool) :
        dn \in {"", "Main"}, ms \in {0, 500}, vcs \in {"", "hg"},
        up \in {NilUrlPattern, UrlPattern("", "#{line}")},
        poll \in {NilBool, BoolPtr(FALSE)}}

\* object texts of at most two members
TextsOf(vals) ==
    LET M == {[k |-> k, v |-> v] : k \in Keys, v \in vals}
    IN {ObjectText(<<>>)} \cup {ObjectText(<<x>>) : x \in M}
       \cup {ObjectText(<<x, y>>) : x \in M, y \in M}

GlobalMessages == {NilMessage, Message(ArrayText)} \cup {Message(t) : t \in TextsOf({1})}
RepoMessages == {NilMessage, Message(ArrayText)} \cup {Message(t) : t \in TextsOf({2})}

\* repos that differ in their vcs and vcs-config
VcsRepoChoices ==
    {MkRepo("", 0, vcs, msg, NilUrlPattern, NilBool, NilBool) :
        vcs \in {"", "hg"}, msg \in RepoMessages}

File(dir, c) == [file |-> "ok", dir |-> dir, cfg |-> c]
EtcDir == Path(TRUE, <<"etc">>)

TopInputs ==
    {File(dir, [ZeroConfig EXCEPT !.Title = t, !.MaxConcurrentIndexers = mc,
                                  !.HealthCheckURI = h, !.ResultLimit = rl,
                                  !.DbPath = db]) :
        dir \in {EtcDir, Path(FALSE, <<>>)},
        t \in {"", "Code"}, mc \in {0, 4}, h \in {"", "/ping"}, rl \in {0, 100},
        db \in {Path(FALSE, <<"data">>), Path(TRUE, <<"var", "db">>)}}

\* a file whose configuration has the repos rs and the global vcs-config g
RepoFile(rs, g) == File(EtcDir, [ZeroConfig EXCEPT !.Repos = rs, !.VCSConfigMessages = g])

BadFiles == {[file |-> x, dir |-> EtcDir, cfg |-> ZeroConfig] : x \in {"missing", "malformed"}}

RepoDomains == {{"a"}, {"a", "b"}}

(***************************************************************************)
(* The loader as a state machine                                           *)
(***************************************************************************)
NoUi == [by |-> "none", text |-> <<>>]

InitLoader ==
    /\ cfg = ZeroConfig
    /\ lpc = "new"
    /\ ui = NoUi

\* var cfg config.Config; cfg.LoadFromFile(*flagConf)
DoLoadFromFile ==
    /\ lpc = "new"
    /\ \E r \in LoadFromFile(input) :
          /\ cfg' = r.cfg
          /\ lpc' = r.status
    /\ UNCHANGED <<input, ui, mvars, kvars>>

DoToJsonString ==
    /\ lpc = "ok"
    /\ ui' = [by |-> "ToJsonString", text |-> ToJsonString(cfg)]
    /\ UNCHANGED <<input, cfg, lpc, mvars, kvars>>

DoMakeTemplateData ==
    /\ lpc = "ok"
    /\ ui' = [by |-> "makeTemplateData", text |-> makeTemplateData(cfg)]
    /\ UNCHANGED <<input, cfg, lpc, mvars, kvars>>

(***************************************************************************)
(* houndd: main, makeSearchers, registerShutdownSignal, handleShutdown     *)
(***************************************************************************)
MaxSignals == 2     \* SIGTERMs the environment delivers

Nil == "nil"
NoRet == [done |-> FALSE, ok |-> FALSE, err |-> Nil]

\* the configurations main is started on: up to three repos, told apart by
\* their display names, and a file that cannot be loaded
MainRepo(n) == MkRepo(n, 0, "", NilMessage, NilUrlPattern, NilBool, NilBool)
MainInputs ==
    {File(EtcDir, [ZeroConfig EXCEPT !.DbPath = Path(FALSE, <<"data">>),
                                     !.Repos = [n \in D |-> MainRepo(n)]]) :
        D \in {{}, {"a"}, {"a", "b"}, {"a", "b", "c"}}}
    \cup {[file |-> "malformed", dir |-> EtcDir, cfg |-> ZeroConfig]}

InitMain ==
    /\ pc = "flags"
    /\ proc = "running"
    /\ cause = "none"
    /\ registered = FALSE
    /\ shutdownCh = 0
    /\ sent = 0
    /\ reposBefore = EmptyMap
    /\ errs = {}
    /\ ret = NoRet
    /\ searchers = {}
    /\ gpc = "none"
    /\ stopped = {}
    /\ waitCalled = {}
    /\ waited = {}

Terminate(how, why) ==
    /\ proc' = how
    /\ cause' = why

\* lines 137-142: flag.Parse(); -version prints the version and exits
Flags ==
    /\ proc = "running" /\ pc = "flags"
    /\ \/ /\ Terminate("exit0", "version")
          /\ pc' = pc
       \/ /\ pc' = "load"
          /\ UNCHANGED <<proc, cause>>
    /\ UNCHANGED <<cvars, registered, shutdownCh, sent, reposBefore, errs, ret,
                   searchers, gpc, stopped, waitCalled, waited,
                   kvars>>

\* lines 144-147: cfg.LoadFromFile(*flagConf); an error panics
MainLoad ==
    /\ proc = "running" /\ pc = "load"
    /\ \E r \in LoadFromFile(input) :
          /\ lpc' = r.status
          /\ \/ /\ r.status = "ok"
                /\ cfg' = r.cfg
                /\ pc' = "webStart"
                /\ UNCHANGED <<proc, cause>>
             \/ /\ r.status # "ok"
                /\ Terminate("panic", "config")
                /\ UNCHANGED <<cfg, pc>>
    /\ UNCHANGED <<input, ui, registered, shutdownCh, sent, reposBefore, errs, ret,
                   searchers, gpc, stopped, waitCalled, waited,
                   kvars>>

\* line 150: ws := web.Start(&cfg, *flagAddr, *flagDev)
WebStart ==
    /\ proc = "running" /\ pc = "webStart"
    /\ pc' = "register"
    /\ UNCHANGED <<cvars, proc, cause, registered, shutdownCh, sent, reposBefore,
                   errs, ret, searchers, gpc, stopped, waitCalled, waited,
                   kvars>>

\* line 154 and registerShutdownSignal: a channel of capacity 1 is
\* registered for SIGTERM
RegisterShutdownSignal ==
    /\ proc = "running" /\ pc = "register"
    /\ registered' = TRUE
    /\ pc' = "stat"
    /\ UNCHANGED <<cvars, proc, cause, shutdownCh, sent, reposBefore, errs, ret,
                   searchers, gpc, stopped, waitCalled, waited,
                   kvars>>

\* lines 36-40: os.Stat(cfg.DbPath), and os.MkdirAll when that fails
EnsureDbPath ==
    /\ proc = "running" /\ pc = "stat"
    /\ reposBefore' = cfg.Repos
    /\ \E exists \in BOOLEAN, mkdirOk \in BOOLEAN :
          IF exists \/ mkdirOk
          THEN /\ pc' = "makeAll"
               /\ ret' = ret
          ELSE /\ pc' = "checkErr"
               /\ ret' = [done |-> TRUE, ok |-> FALSE, err |-> "mkdir"]
    /\ UNCHANGED <<cvars, proc, cause, registered, shutdownCh, sent, errs,
                   searchers, gpc, stopped, waitCalled, waited,
                   kvars>>

\* lines 50-52: delete(cfg.Repos, name) for every name in errs
pruneRepos_None(repos, E) == repos
pruneRepos(repos, E) == [n \in DOMAIN repos \ E |-> repos[n]]

\* lines 42-57: searcher.MakeAll(cfg) returns a global error, or the
\* searchers of the repos it could index and an error per repo it could
\* not; makeSearchers drops the latter from cfg.Repos
MakeAll ==
    /\ proc = "running" /\ pc = "makeAll"
    /\ \/ /\ ret' = [done |-> TRUE, ok |-> FALSE, err |-> "makeAll"]
          /\ UNCHANGED <<cfg, errs, searchers>>
       \/ \E E \in SUBSET DOMAIN cfg.Repos :
             /\ errs' = E
             /\ searchers' = DOMAIN cfg.Repos \ E
             /\ cfg' = IF Cardinality(E) > 0
                       THEN [cfg EXCEPT !.Repos = pruneRepos(@, E)] ELSE cfg
             /\ ret' = [done |-> TRUE, ok |-> ~(Cardinality(E) > 0), err |-> Nil]
    /\ pc' = "checkErr"
    /\ UNCHANGED <<input, lpc, ui, proc, cause, registered, shutdownCh, sent,
                   reposBefore, gpc, stopped, waitCalled, waited,
                   kvars>>

\* lines 156-163: an error of makeSearchers panics; !ok is only logged
fatal_NotOk(r) == r.err # Nil \/ ~r.ok
fatal(r) == r.err # Nil

CheckErr ==
    /\ proc = "running" /\ pc = "checkErr"
    /\ IF fatal(ret)
       THEN /\ Terminate("panic", IF ret.err # Nil THEN ret.err ELSE "notOk")
            /\ pc' = pc
       ELSE /\ pc' = "handleShutdown"
            /\ UNCHANGED <<proc, cause>>
    /\ UNCHANGED <<cvars, registered, shutdownCh, sent, reposBefore, errs, ret,
                   searchers, gpc, stopped, waitCalled, waited,
                   kvars>>

\* line 165 and handleShutdown: the goroutine is started and blocks on
\* <-shutdownCh; main goes on (lines 167-187) to ws.ServeWithIndex
HandleShutdown ==
    /\ proc = "running" /\ pc = "handleShutdown"
    /\ gpc' = "recv"
    /\ pc' = "serve"
    /\ UNCHANGED <<cvars, proc, cause, registered, shutdownCh, sent, reposBefore,
                   errs, ret, searchers, stopped, waitCalled, waited,
                   kvars>>

\* line 187: panic(ws.ServeWithIndex(searchers)) when the server returns
ServeReturns ==
    /\ proc = "running" /\ pc = "serve"
    /\ Terminate("panic", "serve")
    /\ UNCHANGED <<cvars, pc, registered, shutdownCh, sent, reposBefore, errs, ret,
                   searchers, gpc, stopped, waitCalled, waited,
                   kvars>>

\* signal.Notify's delivery into shutdownCh (capacity 1, line 77): a
\* send that would block is dropped
notify_Unbuffered(ch) == ch
notify(ch) == IF ch < 1 THEN ch + 1 ELSE ch

\* The environment sends SIGTERM.  Before signal.Notify the signal has its
\* default disposition and ends the process.
Sigterm ==
    /\ proc = "running" /\ sent < MaxSignals
    /\ sent' = sent + 1
    /\ IF registered
       THEN /\ shutdownCh' = notify(shutdownCh)
            /\ UNCHANGED <<proc, cause>>
       ELSE /\ Terminate("killed", "signal")
            /\ UNCHANGED shutdownCh
    /\ UNCHANGED <<cvars, pc, registered, reposBefore, errs, ret, searchers, gpc,
                   stopped, waitCalled, waited,
                   kvars>>

\* line 62: <-shutdownCh
TakeSignal ==
    /\ proc = "running" /\ gpc = "recv"
    /\ shutdownCh > 0
    /\ shutdownCh' = shutdownCh - 1
    /\ gpc' = "shutdown"
    /\ UNCHANGED <<cvars, pc, proc, cause, registered, sent, reposBefore, errs, ret,
                   searchers, stopped, waitCalled, waited,
                   kvars>>

\* lines 64-66: s.Stop() for each searcher, in map iteration order
StopOne(s) ==
    /\ proc = "running" /\ gpc = "shutdown"
    /\ s \in searchers \ stopped
    /\ stopped' = stopped \cup {s}
    /\ UNCHANGED <<cvars, pc, proc, cause, registered, shutdownCh, sent, reposBefore,
                   errs, ret, searchers, gpc, waitCalled, waited,
                   kvars>>

\* lines 64-70: the second loop starts when the first has ended, and
\* calls s.Wait() when the Wait before it has returned
canWait_SameLoop(s) == s \in stopped /\ waitCalled = waited
canWait(s) == stopped = searchers /\ waitCalled = waited

\* lines 68-70: s.Wait() is called
CallWait(s) ==
    /\ proc = "running" /\ gpc = "shutdown"
    /\ s \in searchers \ waitCalled
    /\ canWait(s)
    /\ waitCalled' = waitCalled \cup {s}
    /\ UNCHANGED <<cvars, pc, proc, cause, registered, shutdownCh, sent, reposBefore,
                   errs, ret, searchers, gpc, stopped, waited,
                   kvars>>

\* s.Wait() returns
WaitReturns(s) ==
    /\ proc = "running" /\ gpc = "shutdown"
    /\ s \in waitCalled \ waited
    /\ waited' = waited \cup {s}
    /\ UNCHANGED <<cvars, pc, proc, cause, registered, shutdownCh, sent, reposBefore,
                   errs, ret, searchers, gpc, stopped, waitCalled,
                   kvars>>

\* line 72: os.Exit(0) when both loops have ended
ShutdownExit ==
    /\ proc = "running" /\ gpc = "shutdown"
    /\ stopped = searchers /\ waited = searchers
    /\ Terminate("exit0", "shutdown")
    /\ UNCHANGED <<cvars, pc, registered, shutdownCh, sent, reposBefore, errs, ret,
                   searchers, gpc, stopped, waitCalled, waited,
                   kvars>>

(***************************************************************************)
(* index: mmapFile, unmmapFile (darwin, freebsd, openbsd, netbsd)          *)
(***************************************************************************)
IntBits == 16       \* width of int in the model (the file size is an int64)
PageSize == 4096
MaxSmall == 20      \* the small file sizes run from 0 to MaxSmall

Pow2(n) == 2 ^ n

\* int(x): x truncated to IntBits bits, two's complement
ToInt(x) ==
    LET r == x % Pow2(IntBits)
    IN IF r >= Pow2(IntBits - 1) THEN r - Pow2(IntBits) ELSE r

\* x &^ 4095 for x >= 0
ClearLow(x) == x - (x % PageSize)

NilSlice == [base |-> 0, len |-> 0, cap |-> 0]
NoMmapData == [d |-> NilSlice, o |-> NilSlice]

FileSizes ==
    (0 .. MaxSmall)
    \cup {PageSize - 1, PageSize, PageSize + 1, 2 * PageSize, 2 * PageSize + 1}
    \cup {Pow2(IntBits - 1) - PageSize - 1, Pow2(IntBits - 1) - PageSize,
          Pow2(IntBits - 1) - PageSize + 1, Pow2(IntBits - 1) - 1,
          Pow2(IntBits - 1), Pow2(IntBits - 1) + PageSize}

InitMmap ==
    /\ kpc = "idle"
    /\ fl = [size |-> 0, open |-> FALSE]
    /\ md = NoMmapData
    /\ active = EmptyMap
    /\ munmaps = 0
    /\ kerr = "none"

\* the caller opens an index file of some size
OpenFile ==
    /\ kpc = "idle"
    /\ \E n \in FileSizes : fl' = [size |-> n, open |-> TRUE]
    /\ kpc' = "opened"
    /\ UNCHANGED <<md, active, munmaps, kerr, cvars, mvars>>

\* syscall.Mmap(fd, 0, length, ...): EINVAL for length <= 0, else the
\* kernel's answer; a mapping is a slice of len = cap = length
Mmap(length) ==
    IF length <= 0 THEN {[err |-> "EINVAL", data |-> NilSlice]}
    ELSE {[err |-> "ENOMEM", data |-> NilSlice],
          [err |-> Nil, data |-> [base |-> 1, len |-> length, cap |-> length]]}

\* func mmapFile(f *os.File) mmapData; log.Fatal ends the process
MmapFile ==
    /\ kpc = "opened"
    /\ \/ /\ kpc' = "fatal"                      \* f.Stat() fails
          /\ UNCHANGED <<md, active>>
       \/ LET size == fl.size
              n == ToInt(size)
          IN IF ToInt(size + 4095) # size + 4095
             THEN /\ kpc' = "fatal"                \* too large for mmap
                  /\ UNCHANGED <<md, active>>
             ELSE IF n = 0
             THEN /\ kpc' = "mapped"
                  /\ md' = [d |-> NilSlice, o |-> NilSlice]
                  /\ UNCHANGED active
             ELSE \E r \in Mmap(ClearLow(n + 4095)) :
                     IF r.err # Nil
                     THEN /\ kpc' = "fatal"
                          /\ UNCHANGED <<md, active>>
                     ELSE /\ kpc' = "mapped"
                          /\ md' = [d |-> [r.data EXCEPT !.len = n], o |-> r.data]
                          /\ active' = [b \in {r.data.base} |-> r.data.len]
    /\ UNCHANGED <<fl, munmaps, kerr, cvars, mvars>>

\* syscall.Munmap(b): EINVAL for an empty slice, for one that is not a
\* whole mapping, and for one that is not mapped; else the mapping is
\* released
Munmap(b) ==
    IF b.len = 0 \/ b.len # b.cap THEN "EINVAL"
    ELSE IF b.base \notin DOMAIN active THEN "EINVAL"
    ELSE IF active[b.base] # b.len THEN "EINVAL"
    ELSE Nil

\* func unmmapFile(m *mmapData) error, called a first and a second time
UnmmapFile ==
    /\ kpc \in {"mapped", "unmapped"}
    /\ kpc' = IF kpc = "mapped" THEN "unmapped" ELSE "unmappedAgain"
    /\ LET err == Munmap(md.o)
       IN IF err # Nil
          THEN /\ kerr' = err
               /\ UNCHANGED <<fl, active, munmaps>>
          ELSE /\ active' = [b \in DOMAIN active \ {md.o.base} |-> active[b]]
               /\ munmaps' = munmaps + 1
               /\ kerr' = IF fl.open THEN Nil ELSE "ErrClosed"   \* m.f.Close()
               /\ fl' = [fl EXCEPT !.open = FALSE]
    /\ UNCHANGED <<md, cvars, mvars>>

(***************************************************************************)
(* Specifications                                                          *)
(***************************************************************************)
\* the loader run on every configuration file of Inputs
\* (files that vary the top-level fields, files that cannot be loaded, files
\* that vary the defaulted fields of one or two repos, and files that vary
\* the vcs-config of the repos and the global vcs-config)
Init ==
    /\ \/ input \in TopInputs \cup BadFiles
       \/ \E rs \in [{"a"} -> RepoChoices] : input = RepoFile(rs, EmptyMap)
       \/ \E rs \in [{"a", "b"} -> PairChoices] : input = RepoFile(rs, EmptyMap)
       \/ \E D \in RepoDomains : \E rs \in [D -> VcsRepoChoices] :
             \E G \in SUBSET {"git", "hg"} : \E g \in [G -> GlobalMessages] :
                input = RepoFile(rs, g)
    /\ InitLoader /\ InitMain /\ InitMmap

Next ==
    \/ DoLoadFromFile
    \/ DoToJsonString
    \/ DoMakeTemplateData

Spec == Init /\ [][Next]_vars

\* the main program and the signals it gets
MainInit ==
    /\ input \in MainInputs
    /\ InitLoader /\ InitMain /\ InitMmap

Shutdown ==
    \/ TakeSignal
    \/ \E s \in searchers : StopOne(s)
    \/ \E s \in searchers : CallWait(s)
    \/ ShutdownExit

WaitsReturn == \E s \in searchers : WaitReturns(s)

MainNext ==
    \/ Flags
    \/ MainLoad
    \/ WebStart
    \/ RegisterShutdownSignal
    \/ EnsureDbPath
    \/ MakeAll
    \/ CheckErr
    \/ HandleShutdown
    \/ ServeReturns
    \/ Sigterm
    \/ Shutdown
    \/ WaitsReturn

MainSpec == MainInit /\ [][MainNext]_vars

\* the goroutine of handleShutdown is scheduled whenever it can run, and
\* every Wait that was called returns
FairMainSpec ==
    /\ MainSpec
    /\ WF_vars(Shutdown)
    /\ WF_vars(WaitsReturn)

\* a reader maps one index file and unmaps it
MmapInit ==
    /\ input = File(EtcDir, ZeroConfig)
    /\ InitLoader /\ InitMain /\ InitMmap

MmapNext ==
    \/ OpenFile
    \/ MmapFile
    \/ UnmmapFile

MmapSpec == MmapInit /\ [][MmapNext]_vars

(***************************************************************************)
(* Properties of the loader (Spec)                                         *)
(***************************************************************************)
Given == input.cfg          \* the configuration as the file gives it

\* C1: after a successful LoadFromFile a top-level field that the file
\* leaves out holds its documented default (title "Hound",
\* max-concurrent-indexers 2, health-check-uri "/healthz", result-limit
\* 5000) and a field the file gives keeps the value given.
C1_TopLevelDefaults ==
    lpc = "ok" =>
        /\ cfg.Title = (IF Given.Title = "" THEN "Hound" ELSE Given.Title)
        /\ cfg.MaxConcurrentIndexers =
              (IF Given.MaxConcurrentIndexers = 0 THEN 2 ELSE Given.MaxConcurrentIndexers)
        /\ cfg.HealthCheckURI =
              (IF Given.HealthCheckURI = "" THEN "/healthz" ELSE Given.HealthCheckURI)
        /\ cfg.ResultLimit = (IF Given.ResultLimit = 0 THEN 5000 ELSE Given.ResultLimit)

C1_Witness ==
    /\ lpc = "ok"
    /\ Given.Title = "" /\ cfg.Title = "Hound"
    /\ Given.MaxConcurrentIndexers = 4 /\ cfg.MaxConcurrentIndexers = 4
    /\ Given.HealthCheckURI = "/ping" /\ cfg.HealthCheckURI = "/ping"
    /\ Given.ResultLimit = 0 /\ cfg.ResultLimit = 5000

\* C2: after a successful LoadFromFile every repo has, for each per-repo
\* field the file leaves out, the documented default (ms-between-poll
\* 30000, vcs "git", base-url and anchor of url-pattern also when only the
\* other one is given, polling enabled, push disabled), and a field the
\* file gives keeps its value, an explicit enable-poll-updates = false and
\* enable-push-updates = true included.
C2_RepoDefaults ==
    lpc = "ok" =>
        /\ DOMAIN cfg.Repos = DOMAIN Given.Repos
        /\ \A n \in DOMAIN cfg.Repos :
              LET g == Given.Repos[n]
                  r == cfg.Repos[n]
              IN /\ r.MsBetweenPolls = (IF g.MsBetweenPolls = 0 THEN 30000 ELSE g.MsBetweenPolls)
                 /\ r.Vcs = (IF g.Vcs = "" THEN "git" ELSE g.Vcs)
                 /\ ~r.UrlPattern.nil
                 /\ r.UrlPattern.BaseUrl =
                       (IF g.UrlPattern.nil \/ g.UrlPattern.BaseUrl = ""
                        THEN "{url}/blob/{rev}/{path}{anchor}" ELSE g.UrlPattern.BaseUrl)
                 /\ r.UrlPattern.Anchor =
                       (IF g.UrlPattern.nil \/ g.UrlPattern.Anchor = ""
                        THEN "#L{line}" ELSE g.UrlPattern.Anchor)
                 /\ PollUpdatesEnabled(r) =
                       (IF g.EnablePollUpdates.nil THEN TRUE ELSE g.EnablePollUpdates.val)
                 /\ PushUpdatesEnabled(r) =
                       (IF g.EnablePushUpdates.nil THEN FALSE ELSE g.EnablePushUpdates.val)
                 /\ r.Url = g.Url
                 /\ r.ExcludeDotFiles = g.ExcludeDotFiles

C2_Witness ==
    /\ lpc = "ok"
    /\ \E n \in DOMAIN cfg.Repos :
          /\ ~Given.Repos[n].UrlPattern.nil
          /\ Given.Repos[n].UrlPattern.BaseUrl = "{url}/src"
          /\ Given.Repos[n].UrlPattern.Anchor = ""
          /\ cfg.Repos[n].UrlPattern = UrlPattern("{url}/src", "#L{line}")
          /\ Given.Repos[n].EnablePollUpdates = BoolPtr(FALSE)
          /\ ~PollUpdatesEnabled(cfg.Repos[n])
          /\ Given.Repos[n].EnablePushUpdates = BoolPtr(TRUE)
          /\ PushUpdatesEnabled(cfg.Repos[n])
          /\ Given.Repos[n].MsBetweenPolls = 0
          /\ cfg.Repos[n].MsBetweenPolls = 30000

\* C3, as stated: after a successful LoadFromFile every repo whose
\* display-name the file leaves out has its name as display-name.
C3_Original ==
    lpc = "ok" =>
        \A n \in DOMAIN cfg.Repos :
            Given.Repos[n].DisplayName = "" => cfg.Repos[n].DisplayName = n

\* C3, amended: LoadFromFile leaves display-name as the file gives it; a
\* repo whose display-name the file leaves out has the empty display-name.
C3_DisplayNameAsGiven ==
    lpc = "ok" =>
        \A n \in DOMAIN cfg.Repos :
            /\ cfg.Repos[n].DisplayName = Given.Repos[n].DisplayName
            /\ Given.Repos[n].DisplayName = "" => cfg.Repos[n].DisplayName = ""

C3_Witness ==
    /\ lpc = "ok"
    /\ \E n \in DOMAIN cfg.Repos :
          /\ Given.Repos[n].DisplayName = ""
          /\ cfg.Repos[n].DisplayName = ""
          /\ cfg.Repos[n].Vcs = "git"

\* the keys of an object text, and the value it gives a key (its last
\* member of that key)
TextKeys(t) == {t.members[i].k : i \in DOMAIN t.members}
TextValue(t, k) ==
    LET I == {i \in DOMAIN t.members : t.members[i].k = k}
        last == CHOOSE i \in I : \A j \in I : j <= i
    IN t.members[last].v

OwnText(n) ==
    IF Given.Repos[n].VcsConfigMessage.nil THEN ObjectText(<<>>)
    ELSE Given.Repos[n].VcsConfigMessage.bytes

\* C4: when LoadFromFile (and so mergeVCSConfigs) succeeds, a repo whose
\* vcs has a global vcs-config entry has a vcs-config with exactly the
\* keys of the global entry and of its own vcs-config, the value being its
\* own for every key it has itself and the global one otherwise; a repo
\* whose vcs has no global entry (every repo, when there is no global
\* vcs-config) keeps its vcs-config as given.
C4_VcsConfigMerged ==
    lpc = "ok" =>
        \A n \in DOMAIN cfg.Repos :
            LET vcs == cfg.Repos[n].Vcs
                msg == cfg.Repos[n].VcsConfigMessage
            IN IF vcs \in DOMAIN Given.VCSConfigMessages
               THEN LET glob == Given.VCSConfigMessages[vcs].bytes
                        own == OwnText(n)
                    IN /\ ~msg.nil
                       /\ msg.bytes.kind = "object"
                       /\ TextKeys(msg.bytes) = TextKeys(glob) \cup TextKeys(own)
                       /\ \A k \in TextKeys(msg.bytes) :
                             TextValue(msg.bytes, k) =
                               (IF k \in TextKeys(own) THEN TextValue(own, k)
                                ELSE TextValue(glob, k))
               ELSE msg = Given.Repos[n].VcsConfigMessage

C4_Witness ==
    /\ lpc = "ok"
    /\ \E n \in DOMAIN cfg.Repos :
          /\ cfg.Repos[n].Vcs \in DOMAIN Given.VCSConfigMessages
          /\ TextKeys(Given.VCSConfigMessages[cfg.Repos[n].Vcs].bytes) = {"k1", "k2"}
          /\ TextKeys(OwnText(n)) = {"k1"}
          /\ cfg.Repos[n].VcsConfigMessage.bytes =
                ObjectText(<<[k |-> "k1", v |-> 2], [k |-> "k2", v |-> 1]>>)
    /\ \E n \in DOMAIN cfg.Repos :
          /\ cfg.Repos[n].Vcs \notin DOMAIN Given.VCSConfigMessages
          /\ ~cfg.Repos[n].VcsConfigMessage.nil

\* the texts a vcs-config is replaced by
VariantTexts ==
    {ObjectText(<<>>), ObjectText(<<[k |-> "k1", v |-> 1]>>),
     ObjectText(<<[k |-> "k2", v |-> 2], [k |-> "k1", v |-> 2]>>), ArrayText}

\* the configurations that differ from c only in the contents of the
\* vcs-config values that are there
SecretVariants(c) ==
    LET held == {n \in DOMAIN c.Repos : ~c.Repos[n].VcsConfigMessage.nil}
        heldG == {g \in DOMAIN c.VCSConfigMessages : ~c.VCSConfigMessages[g].nil}
    IN {[c EXCEPT !.Repos = [n \in DOMAIN @ |->
             IF n \in held THEN [@[n] EXCEPT !.VcsConfigMessage = Message(t[n])]
             ELSE @[n]]]
        : t \in [held -> VariantTexts]}
       \cup
       {[c EXCEPT !.VCSConfigMessages = [g \in DOMAIN @ |->
             IF g \in heldG THEN Message(u[g]) ELSE @[g]]]
        : u \in [heldG -> VariantTexts]}

\* C5: the JSON that ToJsonString and makeTemplateData produce is the same
\* for every configuration that differs only in the contents of its
\* vcs-config values, and shows a vcs-config only as {} or null.
C5_VcsConfigNotInUi ==
    (lpc = "ok" /\ ui.by # "none") =>
        /\ \A c2 \in SecretVariants(cfg) :
              /\ ToJsonString(c2) = ui.text
              /\ makeTemplateData(c2) = ui.text
        /\ \A i \in DOMAIN ui.text :
              ui.text[i][2][5][2] \in {ObjectText(<<>>), NullText}

C5_Witness ==
    /\ lpc = "ok"
    /\ ui.by = "makeTemplateData"
    /\ \E n \in DOMAIN cfg.Repos :
          /\ ~cfg.Repos[n].VcsConfigMessage.nil
          /\ TextKeys(cfg.Repos[n].VcsConfigMessage.bytes) = {"k1", "k2"}
    /\ \E n \in DOMAIN cfg.Repos : cfg.Repos[n].VcsConfigMessage.nil

(***************************************************************************)
(* Properties of the main program (MainSpec, FairMainSpec)                 *)
(***************************************************************************)
\* a partial indexing failure is contained: makeSearchers returns no error,
\* main does not end the process before ServeWithIndex, and the searchers
\* are those of the remaining repos
Contained ==
    /\ (ret.done /\ errs # {}) => ret.err = Nil
    /\ (ret.done /\ ret.err = Nil) =>
          /\ searchers = DOMAIN reposBefore \ errs
          /\ proc = "panic" => pc = "serve"
          /\ pc \in {"checkErr", "handleShutdown", "serve"}

\* C6, as stated: at start-up (before ServeWithIndex) the process is ended
\* only by an invalid configuration or by a dbpath that cannot be created,
\* and a partial indexing failure is contained.
C6_Original ==
    /\ (proc = "panic" /\ pc # "serve") => cause \in {"config", "mkdir"}
    /\ Contained

\* C6, amended: at start-up the process is ended only by an error of
\* LoadFromFile or an error of makeSearchers, which is either a dbpath
\* that cannot be created or the global error of searcher.MakeAll; a
\* partial indexing failure is contained.
C6_StartupFailures ==
    /\ (proc = "panic" /\ pc # "serve") =>
          /\ cause \in {"config", "mkdir", "makeAll"}
          /\ cause = "config" => (pc = "load" /\ lpc # "ok")
          /\ cause # "config" => (pc = "checkErr" /\ ret.err = cause)
    /\ Contained

C6_Witness ==
    /\ proc = "running" /\ pc = "serve" /\ gpc = "recv"
    /\ ret.done /\ ~ret.ok /\ ret.err = Nil
    /\ errs = {"b"} /\ searchers = {"a", "c"}

\* C7: once handleShutdown has taken the signal, Wait is called on a
\* searcher only when Stop has been called on every searcher, the process
\* exits with status 0 only when Wait has returned for every searcher,
\* and, every Wait returning, the process ends.
C7_GracefulShutdown ==
    /\ [](/\ waitCalled # {} => stopped = searchers
          /\ (proc = "exit0" /\ cause = "shutdown") =>
                (stopped = searchers /\ waited = searchers /\ gpc = "shutdown")
          /\ (proc = "exit0" /\ cause # "shutdown") => (cause = "version" /\ pc = "flags"))
    /\ (gpc = "shutdown" ~> proc # "running")

C7_Witness ==
    /\ proc = "exit0" /\ cause = "shutdown"
    /\ searchers = {"a", "b", "c"}
    /\ waited = searchers

\* C8: when searcher.MakeAll reports errors for a non-empty set of repos
\* and no global error, makeSearchers returns ok = false and a nil error,
\* cfg.Repos holds none of those repos and every other repo as it was;
\* when it reports none, ok = true and cfg.Repos is as it was.
C8_FailedReposDropped ==
    (ret.done /\ ret.err = Nil) =>
        IF errs # {}
        THEN /\ ~ret.ok
             /\ DOMAIN cfg.Repos \cap errs = {}
             /\ \A n \in DOMAIN reposBefore \ errs :
                   n \in DOMAIN cfg.Repos /\ cfg.Repos[n] = reposBefore[n]
             /\ DOMAIN cfg.Repos \subseteq DOMAIN reposBefore
        ELSE /\ ret.ok
             /\ cfg.Repos = reposBefore

C8_Witness ==
    /\ ret.done /\ ret.err = Nil /\ ~ret.ok
    /\ errs = {"a", "c"}
    /\ DOMAIN reposBefore = {"a", "b", "c"}
    /\ DOMAIN cfg.Repos = {"b"}

InMakeSearchers == pc \in {"stat", "makeAll"}

\* C9: the shutdown signal is registered before makeSearchers starts; a
\* SIGTERM that arrives before handleShutdown is installed is held in the
\* channel and stays there, no searcher is stopped and the process neither
\* exits nor is killed because of it; once handleShutdown is installed the
\* held signal is taken and the shutdown starts (unless the process has
\* ended otherwise before).
C9_SignalDeferred ==
    /\ [](/\ InMakeSearchers => registered
          /\ (InMakeSearchers \/ pc \in {"checkErr", "handleShutdown"}) => gpc = "none"
          /\ gpc = "none" =>
                (stopped = {} /\ waitCalled = {} /\ cause # "shutdown")
          /\ registered => proc # "killed")
    /\ [][(registered /\ gpc = "none" /\ sent' = sent + 1) => shutdownCh' = 1]_vars
    /\ [][(shutdownCh = 1 /\ gpc' # "shutdown") => shutdownCh' = 1]_vars
    /\ ((shutdownCh = 1 /\ gpc = "recv") ~> (gpc = "shutdown" \/ proc # "running"))

C9_Witness ==
    /\ proc = "running" /\ pc = "makeAll"
    /\ sent = 1 /\ shutdownCh = 1
    /\ gpc = "none" /\ stopped = {}

(***************************************************************************)
(* Properties of the memory mapping (MmapSpec)                             *)
(***************************************************************************)
\* C10, as stated: the mmapData of an accepted file of size n exposes n
\* bytes backed by a mapping of the smallest multiple of 4096 that is
\* >= n (none for n = 0), and a following unmmapFile releases the mapping
\* exactly once, closes f and returns no error, for every n >= 0.
C10_Original ==
    /\ kpc \in {"mapped", "unmapped"} =>
          /\ md.d.len = fl.size
          /\ fl.size > 0 =>
                /\ md.o.len % 4096 = 0
                /\ md.o.len >= fl.size
                /\ md.o.len - fl.size < 4096
                /\ md.d.base = md.o.base
          /\ fl.size = 0 => (md.o = NilSlice /\ active = EmptyMap)
    /\ kpc = "mapped" =>
          (fl.size > 0 => (md.o.base \in DOMAIN active /\ active[md.o.base] = md.o.len))
    /\ kpc = "unmapped" =>
          /\ kerr = Nil
          /\ ~fl.open
          /\ active = EmptyMap
          /\ munmaps = (IF fl.size > 0 THEN 1 ELSE 0)

====
